---------------------------- MODULE Spec2Model ----------------------------
(***************************************************************************)
(* Model of the expression-language front end (rust/src): Lexer, Parser,   *)
(* Ast and ASTEvaluator, driven as main.rs drives them: lex the whole      *)
(* text, build the parser, collect statements, evaluate.                   *)
(*                                                                         *)
(* Text is a sequence of characters, each a one-character string.  Rust    *)
(* strings are UTF-8: input.len() and input[a..b] count BYTES while        *)
(* input.chars().nth(i) counts CHARACTERS, so every character carries its  *)
(* UTF-8 width (Utf8Len).                                                  *)
(*                                                                         *)
(* An f64 is modelled as an exact rational [k |-> "num", n, d] in lowest   *)
(* terms, or an IEEE special value ("inf" with a sign, "nan").  Rounding   *)
(* and the sign of zero are not modelled.  Arithmetic on operands beyond   *)
(* NumLimit is not computed (value "unrep"); the Evaluate step is guarded  *)
(* so that no modelled run rests on such a value.                          *)
(***************************************************************************)
EXTENDS Integers, Sequences, FiniteSets, TLC

VARIABLES
    input,          \* main.rs: the text handed to Lexer::new
    current_pos,    \* Lexer.current_pos
    tokens,         \* main.rs: the Vec<Token> collected from the lexer
    parser_tokens,  \* Parser.tokens (whitespace filtered out)
    current,        \* Parser.current
    statements,     \* Ast.statements
    variables,      \* ASTEvaluator.variables
    result,         \* what Ast::evaluate returned (the Option<f64>)
    pc              \* where main is

vars == <<input, current_pos, tokens, parser_tokens, current, statements,
          variables, result, pc>>

---------------------------------------------------------------------------
(* Bounds of the model *)

MaxLen == 4
MaxChain == 4
NumLimit == 30000

---------------------------------------------------------------------------
(* Characters *)

Digits == <<"0", "1", "2", "3", "4", "5", "6", "7", "8", "9">>

IsDigit(c) == \E i \in 1..10 : Digits[i] = c

DigitVal(c) == (CHOOSE i \in 1..10 : Digits[i] = c) - 1

IsWhitespace(c) == c \in {" ", "\t", "\n"}

Letters == {"a", "b", "c", "d", "e", "f", "g", "h", "i", "j", "k", "l", "m",
            "n", "o", "p", "q", "r", "s", "t", "u", "v", "w", "x", "y", "z"}

\* char::is_alphabetic: the ASCII letters and, of the non-ASCII characters
\* the model draws, the letter e-acute.
IsAlphabetic(c) == c \in Letters \cup {"é"}

IsAlphanumeric(c) == IsAlphabetic(c) \/ IsDigit(c)

\* Bytes of the character's UTF-8 encoding.
Utf8Len(c) == IF c = "é" THEN 2 ELSE IF c = "€" THEN 3 ELSE 1

RECURSIVE ByteLen(_)
\* str::len: the length of the text in bytes.
ByteLen(s) == IF s = <<>> THEN 0 ELSE Utf8Len(Head(s)) + ByteLen(Tail(s))

\* Byte offset at which character number i (0-based) starts.
ByteOffset(s, i) == ByteLen(SubSeq(s, 1, i))

IsCharBoundary(s, b) == \E i \in 0..Len(s) : ByteOffset(s, i) = b

CharIndexOf(s, b) == CHOOSE i \in 0..Len(s) : ByteOffset(s, i) = b

\* &input[a..b]: a byte-range slice; it panics unless both ends are
\* character boundaries (a <= b <= len always holds where it is used).
SliceOk(s, a, b) ==
    a <= b /\ b <= ByteLen(s) /\ IsCharBoundary(s, a) /\ IsCharBoundary(s, b)

Slice(s, a, b) == SubSeq(s, CharIndexOf(s, a) + 1, CharIndexOf(s, b))

---------------------------------------------------------------------------
(* f64 values *)

NoValue == [k |-> "none"]
NaN == [k |-> "nan"]
PosInf == [k |-> "inf", s |-> 1]
NegInf == [k |-> "inf", s |-> -1]
Unrep == [k |-> "unrep"]

Abs(i) == IF i < 0 THEN -i ELSE i

RECURSIVE Gcd(_, _)
Gcd(a, b) == IF b = 0 THEN a ELSE Gcd(b, a % b)

\* The rational n/d (d > 0) in lowest terms.
Num(n, d) ==
    LET g == Gcd(Abs(n), d)
    IN  [k |-> "num", n |-> n \div g, d |-> d \div g]

Real(i) == Num(i, 1)

Fits(v) == v.k = "num" => (Abs(v.n) <= NumLimit /\ v.d <= NumLimit)

Sign(v) == IF v.k = "inf" THEN v.s
           ELSE IF v.n < 0 THEN -1 ELSE IF v.n = 0 THEN 0 ELSE 1

Inf(s) == IF s < 0 THEN NegInf ELSE PosInf

\* f64 + - * / on the modelled values.  An operand beyond NumLimit makes
\* the result "unrep": the model does not compute it.
FAdd(a, b) ==
    IF a.k = "unrep" \/ b.k = "unrep" \/ ~Fits(a) \/ ~Fits(b) THEN Unrep
    ELSE IF a.k = "nan" \/ b.k = "nan" THEN NaN
    ELSE IF a.k = "inf" /\ b.k = "inf" THEN (IF a.s = b.s THEN a ELSE NaN)
    ELSE IF a.k = "inf" THEN a
    ELSE IF b.k = "inf" THEN b
    ELSE Num(a.n * b.d + b.n * a.d, a.d * b.d)

FNeg(a) ==
    IF a.k = "inf" THEN Inf(-a.s)
    ELSE IF a.k = "num" THEN [a EXCEPT !.n = -a.n]
    ELSE a

FSub(a, b) == FAdd(a, FNeg(b))

FMul(a, b) ==
    IF a.k = "unrep" \/ b.k = "unrep" \/ ~Fits(a) \/ ~Fits(b) THEN Unrep
    ELSE IF a.k = "nan" \/ b.k = "nan" THEN NaN
    ELSE IF a.k = "inf" \/ b.k = "inf"
         THEN (IF Sign(a) * Sign(b) = 0 THEN NaN ELSE Inf(Sign(a) * Sign(b)))
    ELSE Num(a.n * b.n, a.d * b.d)

FDiv(a, b) ==
    IF a.k = "unrep" \/ b.k = "unrep" \/ ~Fits(a) \/ ~Fits(b) THEN Unrep
    ELSE IF a.k = "nan" \/ b.k = "nan" THEN NaN
    ELSE IF a.k = "inf" /\ b.k = "inf" THEN NaN
    ELSE IF a.k = "inf" THEN Inf(IF Sign(b) < 0 THEN -a.s ELSE a.s)
    ELSE IF b.k = "inf" THEN Real(0)
    ELSE IF b.n = 0 THEN (IF a.n = 0 THEN NaN ELSE Inf(Sign(a)))
    ELSE IF b.n < 0 THEN Num(-(a.n * b.d), a.d * (-b.n))
    ELSE Num(a.n * b.d, a.d * b.n)

\* Mutant of AsU32: the cast rounds to the nearest integer instead of
\* truncating toward zero.
AsU32Rounded(r) ==
    IF r.k = "nan" THEN [max |-> FALSE, v |-> 0]
    ELSE IF r.k = "inf" THEN [max |-> r.s > 0, v |-> 0]
    ELSE IF r.n < 0 THEN [max |-> FALSE, v |-> 0]
    ELSE [max |-> FALSE, v |-> (2 * r.n + r.d) \div (2 * r.d)]

\* `right as u32`: the saturating float-to-integer cast.  It truncates
\* toward zero; a negative value or NaN gives 0; +inf gives u32::MAX, which
\* is beyond the model's integers and is written [max |-> TRUE].
AsU32(r) ==
    IF r.k = "nan" THEN [max |-> FALSE, v |-> 0]
    ELSE IF r.k = "inf" THEN [max |-> r.s > 0, v |-> 0]
    ELSE IF r.n < 0 THEN [max |-> FALSE, v |-> 0]
    ELSE [max |-> FALSE, v |-> r.n \div r.d]

RECURSIVE PowNat(_, _)
\* b^e for a rational b and a natural e, by squaring; "unrep" when a factor
\* is beyond NumLimit.
PowNat(b, e) ==
    IF e = 0 THEN Real(1)
    ELSE IF e = 1 THEN b
    ELSE IF b.k = "unrep" \/ ~Fits(b) THEN Unrep
    ELSE LET h == PowNat(FMul(b, b), e \div 2)
         IN  IF e % 2 = 0 THEN h ELSE FMul(h, b)

\* left.powf((right as u32).into())
FPow(l, r) ==
    IF l.k = "unrep" \/ r.k = "unrep" \/ ~Fits(r) THEN Unrep
    ELSE LET e == AsU32(r)
         IN  IF ~e.max /\ e.v = 0 THEN Real(1)
             ELSE IF l.k = "nan" THEN NaN
             ELSE IF e.max
                  \* u32::MAX is odd
                  THEN IF l.k = "inf" THEN l
                       ELSE IF Abs(l.n) > l.d THEN Inf(Sign(l))
                       ELSE IF Abs(l.n) = l.d THEN l
                       ELSE Real(0)
             ELSE IF l.k = "inf"
                  THEN (IF l.s < 0 /\ e.v % 2 = 1 THEN NegInf ELSE PosInf)
             ELSE PowNat(l, e.v)

---------------------------------------------------------------------------
(* Lexer (ast/lexer.rs) *)

\* Token::new(kind, TextSpan::new(start, end, literal)).  `number` is the
\* payload of Real, `name` the payload of Variable.
Token(kind, number, name, start, end, literal) ==
    [kind |-> kind, number |-> number, name |-> name,
     span |-> [start |-> start, end |-> end, literal |-> literal]]

\* The literal of the end-of-input token: the one character '\0'.
EofLiteral == <<"\\0">>

\* Lexer::current_char: self.input.chars().nth(self.current_pos); the
\* position is used as a CHARACTER index.  "" stands for None.
CurrentChar(s, pos) == IF pos < Len(s) THEN s[pos + 1] ELSE ""

\* Lexer::consume: None (no move) when current_pos >= input.len(), a BYTE
\* length; otherwise the position advances by one.
ConsumePos(s, pos) == IF pos >= ByteLen(s) THEN pos ELSE pos + 1

RECURSIVE ScanNumber(_, _)
\* The loop of Lexer::consume_number: digits and EVERY '.' are consumed.
\* Returns the position after the run.
ScanNumber(s, pos) ==
    LET c == CurrentChar(s, pos)
    IN  IF c # "" /\ (IsDigit(c) \/ c = ".")
        THEN ScanNumber(s, ConsumePos(s, pos))
        ELSE pos

RECURSIVE DecimalValue(_)
\* The integer a string of digits denotes.
DecimalValue(ds) ==
    IF ds = <<>> THEN 0
    ELSE 10 * DecimalValue(SubSeq(ds, 1, Len(ds) - 1)) + DigitVal(ds[Len(ds)])

RECURSIVE Pow10(_)
Pow10(k) == IF k = 0 THEN 1 ELSE 10 * Pow10(k - 1)

\* number_str.parse::<f64>().unwrap_or(0.0) on a string of digits and dots
\* that starts with a digit: digits, then at most one '.', then digits
\* parses; anything with a second '.' is an Err and gives 0.0.
ParseF64(str) ==
    LET dots == {i \in 1..Len(str) : str[i] = "."}
    IN  IF Cardinality(dots) > 1 THEN Real(0)
        ELSE IF dots = {} THEN Real(DecimalValue(str))
        ELSE LET p == CHOOSE i \in dots : TRUE
                 frac == SubSeq(str, p + 1, Len(str))
             IN  Num(DecimalValue(SubSeq(str, 1, p - 1) \o frac),
                     Pow10(Len(frac)))

\* Lexer::consume_number: the value of the scanned run; ".0" is appended
\* to a run without a '.' before it is parsed.
ConsumeNumber(s, pos) ==
    LET end == ScanNumber(s, pos)
        number_str == SubSeq(s, pos + 1, end)
        is_whole_number == \A i \in 1..Len(number_str) : number_str[i] # "."
    IN  [pos |-> end,
         number |-> ParseF64(IF is_whole_number /\ number_str # <<>>
                             THEN number_str \o <<".", "0">>
                             ELSE number_str)]

RECURSIVE ScanName(_, _)
\* The loop of the alphabetic branch of next_token: the alphanumeric run.
ScanName(s, pos) ==
    LET c == CurrentChar(s, pos)
    IN  IF c # "" /\ IsAlphanumeric(c)
        THEN ScanName(s, ConsumePos(s, pos))
        ELSE pos

\* The keyword match of next_token.
NameKind(variable_name) ==
    IF variable_name = <<"f", "o", "r">> THEN "For"
    ELSE IF variable_name = <<"p", "r", "i", "n", "t">> THEN "Print"
    ELSE IF variable_name = <<"v", "a", "r">> THEN "Define"
    ELSE "Variable"

\* Lexer::consume_punctuation at a character c = current_char(): the kind
\* and the position after it.
ConsumePunctuation(s, pos) ==
    LET c == CurrentChar(s, pos)
        p1 == ConsumePos(s, pos)
    IN  IF c = "/" /\ CurrentChar(s, p1) = "/"
        THEN [pos |-> ConsumePos(s, p1), kind |-> "IntegerDivide"]
        ELSE [pos |-> p1,
              kind |-> CASE c = "+" -> "Plus"
                         [] c = "-" -> "Minus"
                         [] c = "*" -> "Asterisk"
                         [] c = "=" -> "Assing"
                         [] c = ";" -> "Term"
                         [] c = "/" -> "Slash"
                         [] c = "(" -> "LeftParen"
                         [] c = ")" -> "RightParen"
                         [] c = "{" -> "Begin"
                         [] c = "}" -> "End"
                         [] c = "^" -> "Pow"
                         [] OTHER -> "Bad"]

\* Lexer::next_token at position pos of text s.  st is "some" (a token,
\* and the new position), "none" (None returned) or "panic" (the slice
\* &input[start..end] is not on character boundaries).
LexNextToken(s, pos) ==
    IF pos = ByteLen(s)
    THEN [st |-> "some", pos |-> pos + 1,
          token |-> Token("Eof", NoValue, <<>>, 0, 0, EofLiteral)]
    ELSE LET c == CurrentChar(s, pos)
         IN  IF c = "" THEN [st |-> "none", pos |-> pos]
             ELSE LET scan ==
                          IF IsDigit(c)
                          THEN LET r == ConsumeNumber(s, pos)
                               IN  [pos |-> r.pos, kind |-> "Real",
                                    number |-> r.number, name |-> <<>>]
                          ELSE IF IsWhitespace(c)
                          THEN [pos |-> ConsumePos(s, pos),
                                kind |-> "Whitespace",
                                number |-> NoValue, name |-> <<>>]
                          ELSE IF IsAlphabetic(c)
                          THEN LET e == ScanName(s, pos)
                                   variable_name == SubSeq(s, pos + 1, e)
                               IN  [pos |-> e, kind |-> NameKind(variable_name),
                                    number |-> NoValue,
                                    name |-> IF NameKind(variable_name) = "Variable"
                                             THEN variable_name ELSE <<>>]
                          ELSE LET r == ConsumePunctuation(s, pos)
                               IN  [pos |-> r.pos, kind |-> r.kind,
                                    number |-> NoValue, name |-> <<>>]
                  IN  IF SliceOk(s, pos, scan.pos)
                      THEN [st |-> "some", pos |-> scan.pos,
                            token |-> Token(scan.kind, scan.number, scan.name,
                                            pos, scan.pos,
                                            Slice(s, pos, scan.pos))]
                      ELSE [st |-> "panic", pos |-> scan.pos]

---------------------------------------------------------------------------
(* AST (ast/mod.rs) *)

\* ASTExpression::number / variable / binary / parenthesized / start_end.
\* The operator's token, kept by ASTBinaryOperator for nothing but Debug
\* output, is left out.
NumberExpr(number) == [kind |-> "Number", number |-> number]

VariableExpr(name) == [kind |-> "Variable", name |-> name]

BinaryExpr(operator, left, right) ==
    [kind |-> "Binary", operator |-> operator, left |-> left, right |-> right]

ParenthesizedExpr(expression) ==
    [kind |-> "Parenthesized", expression |-> expression]

StartEndExpr(expression) == [kind |-> "StartEnd", expression |-> expression]

\* ASTBinaryOperator::precedence
Precedence(operator) ==
    CASE operator = "Eof" -> 1
      [] operator = "Plus" -> 1
      [] operator = "Minus" -> 1
      [] operator = "Multiply" -> 2
      [] operator = "Divide" -> 2
      [] operator = "IntegerDivide" -> 2
      [] operator = "Pow" -> 3

---------------------------------------------------------------------------
(* Parser (ast/parser.rs) *)

RECURSIVE FilterWhitespace(_)
\* Parser::new: the tokens whose kind is not Whitespace, in order.
FilterWhitespace(ts) ==
    IF ts = <<>> THEN <<>>
    ELSE IF Head(ts).kind = "Whitespace" THEN FilterWhitespace(Tail(ts))
    ELSE <<Head(ts)>> \o FilterWhitespace(Tail(ts))

\* Mutant of Peek: an index past the end gives the last token instead of
\* None.
PeekClamped(ts, cur, offset) ==
    IF cur + offset >= 0 /\ cur + offset < Len(ts)
    THEN [ok |-> TRUE, token |-> ts[cur + offset + 1]]
    ELSE IF cur + offset >= 0 /\ ts # <<>>
         THEN [ok |-> TRUE, token |-> ts[Len(ts)]]
    ELSE [ok |-> FALSE]

\* Parser::peek(offset) with the cursor at cur: tokens.get(cur + offset).
\* A record with ok = FALSE stands for None.
Peek(ts, cur, offset) ==
    IF cur + offset >= 0 /\ cur + offset < Len(ts)
    THEN [ok |-> TRUE, token |-> ts[cur + offset + 1]]
    ELSE [ok |-> FALSE]

\* Parser::current
Current(ts, cur) == Peek(ts, cur, 0)

\* Parser::consume: the cursor moves first, then peek(-1).
Consume(ts, cur) == [cur |-> cur + 1, got |-> Peek(ts, cur + 1, -1)]

\* Parser::parse_binary_operator: the operator kind of the current token,
\* "" for None.  The cursor does not move.
ParseBinaryOperator(ts, cur) ==
    LET t == Current(ts, cur)
    IN  IF ~t.ok THEN ""
        ELSE CASE t.token.kind = "Plus" -> "Plus"
               [] t.token.kind = "Minus" -> "Minus"
               [] t.token.kind = "Asterisk" -> "Multiply"
               [] t.token.kind = "Slash" -> "Divide"
               [] t.token.kind = "Pow" -> "Pow"
               [] t.token.kind = "IntegerDivide" -> "IntegerDivide"
               [] OTHER -> ""

\* What a parse function returns: st is "some" (an expression), "none"
\* (None) or "panic"; cur is the cursor it leaves.
Some(expr, cur) == [st |-> "some", expr |-> expr, cur |-> cur]

None(cur) == [st |-> "none", cur |-> cur]

Panic(cur) == [st |-> "panic", cur |-> cur]

\* Mutant of StopsLoop: an operator of equal precedence ends the loop too.
StopsLoopOnEqual(operator_precedence, precedence) ==
    operator_precedence <= precedence

\* The test that ends the while loop of parse_binary_expression, made
\* after the operator has been consumed.
StopsLoop(operator_precedence, precedence) == operator_precedence < precedence

RECURSIVE ParseBinaryExpression(_, _, _)
RECURSIVE BinaryLoop(_, _, _, _)
RECURSIVE ParsePrimaryExpression(_, _)

\* Parser::parse_expression
ParseExpression(ts, cur) == ParseBinaryExpression(ts, cur, 0)

\* Mutant of CloseGroup: the kind of the token after the inner expression
\* is not checked.
CloseGroupUnchecked(ts, inner, closer, wrap) ==
    IF inner.st # "some" THEN inner
    ELSE LET c == Consume(ts, inner.cur)
         IN  IF ~c.got.ok THEN None(c.cur) ELSE Some(wrap, c.cur)

\* The closing half of the `(` and `{` arms of parse_primary_expression:
\* inner is what parse_expression returned, closer the kind required.
CloseGroup(ts, inner, closer, wrap) ==
    IF inner.st # "some" THEN inner
    ELSE LET c == Consume(ts, inner.cur)
         IN  IF ~c.got.ok THEN None(c.cur)
             ELSE IF c.got.token.kind # closer THEN Panic(c.cur)
             ELSE Some(wrap, c.cur)

\* Parser::parse_primary_expression
ParsePrimaryExpression(ts, cur) ==
    LET c == Consume(ts, cur)
    IN  IF ~c.got.ok THEN None(c.cur)
        ELSE LET token == c.got.token
             IN  CASE token.kind = "Real" ->
                        Some(NumberExpr(token.number), c.cur)
                   [] token.kind = "Variable" ->
                        Some(VariableExpr(token.name), c.cur)
                   [] token.kind = "LeftParen" ->
                        LET inner == ParseExpression(ts, c.cur)
                        IN  CloseGroup(ts, inner, "RightParen",
                                IF inner.st = "some"
                                THEN ParenthesizedExpr(inner.expr) ELSE inner)
                   [] token.kind = "Begin" ->
                        LET inner == ParseExpression(ts, c.cur)
                        IN  CloseGroup(ts, inner, "End",
                                IF inner.st = "some"
                                THEN StartEndExpr(inner.expr) ELSE inner)
                   [] OTHER -> None(c.cur)

\* The while loop of parse_binary_expression with `left` parsed so far:
\* the operator is consumed BEFORE its precedence is compared.
BinaryLoop(ts, cur, precedence, left) ==
    LET operator == ParseBinaryOperator(ts, cur)
    IN  IF operator = "" THEN Some(left, cur)
        ELSE LET c == Consume(ts, cur)
                 operator_precedence == Precedence(operator)
             IN  IF StopsLoop(operator_precedence, precedence)
                 THEN Some(left, c.cur)
                 ELSE LET right == ParseBinaryExpression(ts, c.cur,
                                                         operator_precedence)
                      IN  IF right.st # "some" THEN right
                          ELSE BinaryLoop(ts, right.cur, precedence,
                                   BinaryExpr(operator, left, right.expr))

\* Parser::parse_binary_expression
ParseBinaryExpression(ts, cur, precedence) ==
    LET left == ParsePrimaryExpression(ts, cur)
    IN  IF left.st # "some" THEN left
        ELSE BinaryLoop(ts, left.cur, precedence, left.expr)

\* Parser::next_statement / parse_statement: None without moving when no
\* token is left, otherwise one expression wrapped as a statement.
ParseStatement(ts, cur) ==
    IF ~Current(ts, cur).ok THEN None(cur)
    ELSE ParseExpression(ts, cur)

---------------------------------------------------------------------------
(* ASTEvaluator (ast/mod.rs) *)

\* ASTStatement::expression
ExpressionStatement(expr) == [kind |-> "Expression", expression |-> expr]

\* ASTEvaluator::visit_variable: the map's value, None when absent.
VisitVariable(name, map) ==
    IF name \in DOMAIN map THEN map[name] ELSE NoValue

\* Mutant of VisitVariableArm: the reserved names are looked up like any
\* other name.
VisitVariableArmLookup(name, map) == VisitVariable(name, map)

\* The Variable arm of ASTEvaluator::visit_expression.
VisitVariableArm(name, map) ==
    IF name = <<"x">> THEN Real(1)
    ELSE IF name = <<"y">> THEN Real(3)
    ELSE VisitVariable(name, map)

\* The match of ASTEvaluator::visit_binary_expression.
ApplyOperator(operator, left, right) ==
    CASE operator = "Plus" -> FAdd(left, right)
      [] operator = "Minus" -> FSub(left, right)
      [] operator = "Multiply" -> FMul(left, right)
      [] operator = "Divide" -> FDiv(left, right)
      [] operator = "Pow" -> FPow(left, right)
      [] operator = "IntegerDivide" -> FDiv(left, right)
      [] operator = "Eof" -> Real(0)

RECURSIVE VisitExpression(_, _)
\* ASTEvaluator::visit_expression on an evaluator whose map is `map`: the
\* register last_value it leaves (every arm assigns it, so the register's
\* old value plays no part), or a panic (an unwrap of None in
\* visit_binary_expression).  What print! writes is not modelled.
VisitExpression(e, map) ==
    CASE e.kind = "Number" -> [st |-> "ok", last_value |-> e.number]
      [] e.kind = "Variable" ->
            [st |-> "ok", last_value |-> VisitVariableArm(e.name, map)]
      [] e.kind = "Parenthesized" -> VisitExpression(e.expression, map)
      [] e.kind = "StartEnd" -> VisitExpression(e.expression, map)
      [] e.kind = "Binary" ->
            LET l == VisitExpression(e.left, map)
            IN  IF l.st = "panic" \/ l.last_value = NoValue
                THEN [st |-> "panic", last_value |-> NoValue]
                ELSE LET r == VisitExpression(e.right, map)
                     IN  IF r.st = "panic" \/ r.last_value = NoValue
                         THEN [st |-> "panic", last_value |-> NoValue]
                         ELSE [st |-> "ok",
                               last_value |-> ApplyOperator(e.operator,
                                                  l.last_value, r.last_value)]

RECURSIVE VisitStatements(_, _, _)
\* The for loop of Ast::evaluate from register value last_value on.
VisitStatements(stmts, map, last_value) ==
    IF stmts = <<>> THEN [st |-> "ok", last_value |-> last_value]
    ELSE LET v == VisitExpression(Head(stmts).expression, map)
         IN  IF v.st = "panic" THEN v
             ELSE VisitStatements(Tail(stmts), map, v.last_value)

RECURSIVE VisitStatementsKeep(_, _, _)
\* VisitStatements with a register that a statement without a value does
\* not overwrite.
VisitStatementsKeep(stmts, map, last_value) ==
    IF stmts = <<>> THEN [st |-> "ok", last_value |-> last_value]
    ELSE LET v == VisitExpression(Head(stmts).expression, map)
         IN  IF v.st = "panic" THEN v
             ELSE VisitStatementsKeep(Tail(stmts), map,
                      IF v.last_value = NoValue THEN last_value ELSE v.last_value)

\* Mutant of AstEvaluate: the value of an earlier statement survives a
\* later statement that has none.
AstEvaluateKeep(stmts, map) == VisitStatementsKeep(stmts, map, NoValue)

\* Ast::evaluate: a new evaluator (last_value: None), every statement
\* visited in order, the register returned.
AstEvaluate(stmts, map) == VisitStatements(stmts, map, NoValue)

RECURSIVE UsesUnrep(_, _)
\* Whether evaluating e computes with a number beyond the model's range.
UsesUnrep(e, map) ==
    CASE e.kind \in {"Parenthesized", "StartEnd"} -> UsesUnrep(e.expression, map)
      [] e.kind = "Binary" ->
            \/ UsesUnrep(e.left, map)
            \/ UsesUnrep(e.right, map)
            \/ VisitExpression(e, map).last_value = Unrep
      [] OTHER -> FALSE

\* The numbers of every statement stay within the model's range.
Representable(stmts, map) ==
    \A i \in 1..Len(stmts) : ~UsesUnrep(stmts[i].expression, map)

---------------------------------------------------------------------------
(* main (main.rs) *)

\* HashMap::new()
EmptyMap == [name \in {} |-> NoValue]

\* The state after Lexer::new(input) and Vec::new(), for a text.
Start(text, map) ==
    /\ input = text
    /\ current_pos = 0
    /\ tokens = <<>>
    /\ parser_tokens = <<>>
    /\ current = 0
    /\ statements = <<>>
    /\ variables = map
    /\ result = NoValue
    /\ pc = "lexing"

\* One turn of `while let Some(token) = lexer.next_token()`.
NextToken ==
    /\ pc = "lexing"
    /\ LET r == LexNextToken(input, current_pos)
       IN  /\ current_pos' = r.pos
           /\ tokens' = IF r.st = "some" THEN Append(tokens, r.token) ELSE tokens
           /\ pc' = IF r.st = "some" THEN "lexing"
                    ELSE IF r.st = "none" THEN "lexed"
                    ELSE "lexer_panic"
    /\ UNCHANGED <<input, parser_tokens, current, statements, variables, result>>

\* Ast::new() and Parser::new(tokens).
ParserNew ==
    /\ pc = "lexed"
    /\ parser_tokens' = FilterWhitespace(tokens)
    /\ current' = 0
    /\ statements' = <<>>
    /\ pc' = "parsing"
    /\ UNCHANGED <<input, current_pos, tokens, variables, result>>

\* One turn of the loop around parser.next_statement().
NextStatement ==
    /\ pc = "parsing"
    /\ LET r == ParseStatement(parser_tokens, current)
       IN  /\ current' = r.cur
           /\ statements' = IF r.st = "some"
                            THEN Append(statements, ExpressionStatement(r.expr))
                            ELSE statements
           /\ pc' = IF r.st = "some" THEN "parsing"
                    ELSE IF r.st = "none" THEN "parsed"
                    ELSE "parser_panic"
    /\ UNCHANGED <<input, current_pos, tokens, parser_tokens, variables, result>>

\* ast.visualize() (output only) and ast.evaluate().
Evaluate ==
    /\ pc = "parsed"
    /\ Representable(statements, variables)
    /\ LET r == AstEvaluate(statements, variables)
       IN  /\ result' = r.last_value
           /\ pc' = IF r.st = "ok" THEN "done" ELSE "evaluator_panic"
    /\ UNCHANGED <<input, current_pos, tokens, parser_tokens, current,
                   statements, variables>>

Next == NextToken \/ ParserNew \/ NextStatement \/ Evaluate

---------------------------------------------------------------------------
(* Input texts *)

RECURSIVE Texts(_, _)
\* Every text of at most n characters of the alphabet.
Texts(alphabet, n) ==
    IF n = 0 THEN {<<>>}
    ELSE LET shorter == Texts(alphabet, n - 1)
         IN  shorter \cup {Append(t, c) : t \in shorter, c \in alphabet}

\* Alphabet of the general texts: a digit, an operator, the grouping
\* characters, a letter, a two-byte letter and a space.
Sigma == {"2", "+", "(", ")", "{", "}", "a", "é", " "}

\* Alphabet of the texts that exercise the lexer: digits and dots, a
\* divide sign, a letter, a space, an ASCII character outside the token
\* alphabet, a two-byte letter and a three-byte symbol.
LexSigma == {"1", ".", "/", " ", "a", "#", "é", "€"}

KeywordTexts == {<<"f", "o", "r">>, <<"p", "r", "i", "n", "t">>,
                 <<"v", "a", "r">>, <<"v", "a", "r", " ", "x">>,
                 <<"1", ".", "2", ".", "3">>}

Init == \E text \in Texts(Sigma, MaxLen) : Start(text, EmptyMap)

Spec == Init /\ [][Next]_vars

InitLex ==
    \E text \in Texts(LexSigma, MaxLen) \cup KeywordTexts : Start(text, EmptyMap)

SpecLex == InitLex /\ [][Next]_vars

RECURSIVE Join(_, _)
\* The lexemes written one after another with sep between them.
Join(lexemes, sep) ==
    IF lexemes = <<>> THEN <<>>
    ELSE IF Len(lexemes) = 1 THEN Head(lexemes)
    ELSE Head(lexemes) \o sep \o Join(Tail(lexemes), sep)

Separators == {<<>>, <<" ">>}

Operands == {<<"2">>, <<"3">>, <<"4">>}

\* The binary operators as written, by precedence level.
OperatorTexts(level) ==
    CASE level = 1 -> {<<"+">>, <<"-">>}
      [] level = 2 -> {<<"*">>, <<"/">>, <<"/", "/">>}
      [] level = 3 -> {<<"^">>}

AllOperatorTexts == OperatorTexts(1) \cup OperatorTexts(2) \cup OperatorTexts(3)

\* a op1 b op2 c, bare or with one pair of ( ) or { } around the first
\* two operands, the last two, or all three.
Groupings(a, op1, b, op2, c) ==
    {<<a, op1, b, op2, c>>}
    \cup UNION {{<<g[1], a, op1, b, g[2], op2, c>>,
                 <<a, op1, g[1], b, op2, c, g[2]>>,
                 <<g[1], a, op1, b, op2, c, g[2]>>}
                : g \in {<<<<"(">>, <<")">>>>, <<<<"{">>, <<"}">>>>}}

PrecTexts ==
    UNION {{Join(g, sep) : g \in Groupings(a, op1, b, op2, c), sep \in Separators}
           : a \in Operands, op1 \in AllOperatorTexts, b \in Operands,
             op2 \in AllOperatorTexts, c \in Operands}

InitPrec == \E text \in PrecTexts : Start(text, EmptyMap)

SpecPrec == InitPrec /\ [][Next]_vars

ChainOperands == {<<"2">>, <<"3">>, <<"8">>}

RECURSIVE Chains(_, _)
\* The chains of n operands joined by operators of one precedence level.
Chains(level, n) ==
    IF n = 1 THEN {<<a>> : a \in ChainOperands}
    ELSE {ch \o <<op, a>> : ch \in Chains(level, n - 1),
                            op \in OperatorTexts(level), a \in ChainOperands}

ChainTexts ==
    UNION {{Join(ch, <<>>) : ch \in Chains(level, n)}
           : level \in 1..3, n \in 1..MaxChain}

InitChain == \E text \in ChainTexts : Start(text, EmptyMap)

SpecChain == InitChain /\ [][Next]_vars

\* Texts of variable names, and variable maps an evaluator may be given.
VarSigma == {"x", "y", "a", "+", " "}

MapNames == {<<"x">>, <<"a">>}

MapValues == {Real(5), Real(7)}

Maps == UNION {[names -> MapValues] : names \in SUBSET MapNames}

InitVars ==
    \E text \in Texts(VarSigma, MaxLen), map \in Maps : Start(text, map)

SpecVars == InitVars /\ [][Next]_vars

---------------------------------------------------------------------------
(* Properties *)

\* main has left the statement-collecting loop (or the parser panicked).
PastParsing == pc \in {"parsed", "done", "evaluator_panic", "parser_panic"}

\* The kinds of a token sequence.
Kinds(ts) == [i \in 1..Len(ts) |-> ts[i].kind]

OperatorKinds == {"Plus", "Minus", "Asterisk", "Slash", "Pow", "IntegerDivide"}

\* The operator a token of an operator kind stands for.
OperatorAt(ts, i) == ParseBinaryOperator(ts, i - 1)

\* ts is  number op number op ... number Eof  with at least one operator.
IsOperatorChain(ts) ==
    /\ Len(ts) >= 4
    /\ Len(ts) % 2 = 0
    /\ ts[Len(ts)].kind = "Eof"
    /\ \A i \in 1..(Len(ts) - 1) :
          IF i % 2 = 1 THEN ts[i].kind = "Real" ELSE ts[i].kind \in OperatorKinds

\* C1: higher precedence binds tighter whichever operator comes first.  For
\* a text  a op1 b op2 c  of numbers whose two operators differ in
\* precedence, parsing yields exactly one statement, grouped around the
\* higher operator: (a op1 b) op2 c when op1 is higher, a op1 (b op2 c)
\* when op2 is higher; and ( a op1 b ) op2 c applies op2 to the
\* parenthesized a op1 b.  "2 + 3 * 4" evaluates to 14.
C1_PrecedenceGroups ==
    LET ts == parser_tokens
        n(i) == NumberExpr(ts[i].number)
    IN  PastParsing =>
        /\ (IsOperatorChain(ts) /\ Len(ts) = 6) =>
              LET op1 == OperatorAt(ts, 2)
                  op2 == OperatorAt(ts, 4)
              IN  /\ Precedence(op1) > Precedence(op2) =>
                        /\ pc # "parser_panic"
                        /\ statements = <<ExpressionStatement(
                               BinaryExpr(op2, BinaryExpr(op1, n(1), n(3)), n(5)))>>
                  /\ Precedence(op1) < Precedence(op2) =>
                        /\ pc # "parser_panic"
                        /\ statements = <<ExpressionStatement(
                               BinaryExpr(op1, n(1), BinaryExpr(op2, n(3), n(5))))>>
        /\ (/\ Len(ts) = 8
            /\ ts[1].kind = "LeftParen" /\ ts[5].kind = "RightParen"
            /\ ts[2].kind = "Real" /\ ts[4].kind = "Real" /\ ts[7].kind = "Real"
            /\ ts[3].kind \in OperatorKinds /\ ts[6].kind \in OperatorKinds
            /\ ts[8].kind = "Eof") =>
              /\ pc # "parser_panic"
              /\ statements = <<ExpressionStatement(
                     BinaryExpr(OperatorAt(ts, 6),
                         ParenthesizedExpr(BinaryExpr(OperatorAt(ts, 3), n(2), n(4))),
                         n(7)))>>
        /\ (pc = "done" /\ input = <<"2", " ", "+", " ", "3", " ", "*", " ", "4">>)
              => result = Real(14)

\* C1, the half the code satisfies: the second operator is the higher one.
C1_SecondHigherReached ==
    /\ pc = "done"
    /\ input = <<"2", " ", "+", " ", "3", " ", "*", " ", "4">>
    /\ result = Real(14)

RECURSIVE RightTree(_, _)
\* The tree  a op1 (b op2 (c ...))  of the operator chain from operand i on.
RightTree(ts, i) ==
    IF ts[i + 1].kind = "Eof" THEN NumberExpr(ts[i].number)
    ELSE BinaryExpr(OperatorAt(ts, i + 1), NumberExpr(ts[i].number),
                    RightTree(ts, i + 2))

\* C2: a chain of numbers joined by operators of one precedence level
\* parses to a single statement that associates to the right.
C2_RightAssociative ==
    (/\ PastParsing
     /\ IsOperatorChain(parser_tokens)
     /\ \A i, j \in 1..(Len(parser_tokens) - 1) :
           (i % 2 = 0 /\ j % 2 = 0) =>
               Precedence(OperatorAt(parser_tokens, i))
                   = Precedence(OperatorAt(parser_tokens, j)))
    => /\ pc # "parser_panic"
       /\ statements = <<ExpressionStatement(RightTree(parser_tokens, 1))>>

\* "8-3-2" has been parsed as 8 - (3 - 2) and evaluated to 7.
C2_Witness ==
    /\ input = <<"8", "-", "3", "-", "2">>
    /\ pc = "done"
    /\ statements = <<ExpressionStatement(
           BinaryExpr("Minus", NumberExpr(Real(8)),
               BinaryExpr("Minus", NumberExpr(Real(3)), NumberExpr(Real(2)))))>>
    /\ result = Real(7)

\* The first token opens a group and no token of the stream closes it.
UnmatchedOpenerFirst(ts) ==
    /\ ts # <<>>
    /\ \/ ts[1].kind = "LeftParen" /\ \A i \in 1..Len(ts) : ts[i].kind # "RightParen"
       \/ ts[1].kind = "Begin" /\ \A i \in 1..Len(ts) : ts[i].kind # "End"

EofToken == Token("Eof", NoValue, <<>>, 0, 0, EofLiteral)

\* C4: when the lexer has returned None, the end-of-input token was
\* returned exactly once, as the last token, with span 0..0 and the
\* null-character literal, and a further call returns no token.
C4_EofExactlyOnce ==
    pc = "lexed" =>
        /\ tokens # <<>>
        /\ tokens[Len(tokens)] = EofToken
        /\ \A i \in 1..(Len(tokens) - 1) : tokens[i].kind # "Eof"
        /\ LexNextToken(input, current_pos).st = "none"

RECURSIVE Literals(_)
\* The span literals of the tokens before the end-of-input token, one
\* after another.
Literals(ts) ==
    IF ts = <<>> THEN <<>>
    ELSE (IF Head(ts).kind = "Eof" THEN <<>> ELSE Head(ts).span.literal)
         \o Literals(Tail(ts))

\* C5: the literals of the emitted tokens, whitespace included, written one
\* after another are the source text, and the spans are contiguous from 0
\* to the length of the text.
C5_RoundTrip ==
    pc = "lexed" =>
        LET ts == SelectSeq(tokens, LAMBDA t : t.kind # "Eof")
        IN  /\ Literals(tokens) = input
            /\ \A i \in 1..Len(ts) :
                  ts[i].span.start = IF i = 1 THEN 0 ELSE ts[i - 1].span.end
            /\ (IF ts = <<>> THEN 0 ELSE ts[Len(ts)].span.end) = ByteLen(input)

\* C6: a numeric token holds at most one '.': a second '.' ends it.
C6_SecondDotEndsNumber ==
    \A i \in 1..Len(tokens) :
        tokens[i].kind = "Real" =>
            Cardinality({j \in 1..Len(tokens[i].span.literal) :
                            tokens[i].span.literal[j] = "."}) <= 1

\* C7: lexing never aborts, and a Bad token's literal is the one character
\* it was made from.
C7_LexingNeverFails ==
    /\ pc # "lexer_panic"
    /\ \A i \in 1..Len(tokens) :
          tokens[i].kind = "Bad" =>
              tokens[i].span.literal = <<input[tokens[i].span.start + 1]>>

RECURSIVE ParseAll(_, _, _)
\* The statement-collecting loop of main on a token sequence: the
\* statements collected and how the loop ended ("none" or "panic").
ParseAll(ts, cur, acc) ==
    LET r == ParseStatement(ts, cur)
    IN  IF r.st = "some"
        THEN ParseAll(ts, r.cur, Append(acc, ExpressionStatement(r.expr)))
        ELSE [st |-> r.st, stmts |-> acc]

\* C8: for an expression e of numbers and operators that evaluates to a
\* value, ( e ) parses to a Parenthesized node and { e } to a Block node
\* around the tree of e, and evaluates to the value of e.
C8_GroupingTransparent ==
    LET ts == parser_tokens
        n == Len(ts)
    IN  (/\ PastParsing
         /\ n >= 4
         /\ ts[n].kind = "Eof"
         /\ <<ts[1].kind, ts[n - 1].kind>>
               \in {<<"LeftParen", "RightParen">>, <<"Begin", "End">>}
         /\ LET e == SubSeq(ts, 2, n - 2) \o <<ts[n]>>
                prog == ParseAll(e, 0, <<>>)
            IN  /\ IsOperatorChain(e) \/ Kinds(e) = <<"Real", "Eof">>
                /\ prog.st = "none"
                /\ Representable(prog.stmts, variables)
                /\ AstEvaluate(prog.stmts, variables).st = "ok"
                /\ AstEvaluate(prog.stmts, variables).last_value # NoValue)
        => LET e == SubSeq(ts, 2, n - 2) \o <<ts[n]>>
               prog == ParseAll(e, 0, <<>>)
           IN  /\ pc \notin {"parser_panic", "evaluator_panic"}
               /\ Len(statements) = 1
               /\ statements[1].expression.kind =
                     IF ts[1].kind = "LeftParen" THEN "Parenthesized" ELSE "StartEnd"
               /\ Len(prog.stmts) = 1 =>
                     statements[1].expression.expression = prog.stmts[1].expression
               /\ pc = "done" =>
                     result = AstEvaluate(prog.stmts, variables).last_value

\* C9: a program of one variable evaluates to 1.0 for x and 3.0 for y
\* whatever the map holds, to the map's value for another bound name, and
\* to "no value" for an unbound one.
C9_VariableLeaf ==
    (/\ pc \in {"done", "evaluator_panic"}
     /\ Len(statements) = 1
     /\ statements[1].expression.kind = "Variable")
    => LET name == statements[1].expression.name
       IN  /\ pc = "done"
           /\ result = IF name = <<"x">> THEN Real(1)
                       ELSE IF name = <<"y">> THEN Real(3)
                       ELSE IF name \in DOMAIN variables THEN variables[name]
                       ELSE NoValue

\* x has evaluated to 1.0 although the map binds it to 5.0.
C9_Witness ==
    /\ input = <<"x">>
    /\ <<"x">> \in DOMAIN variables
    /\ variables[<<"x">>] = Real(5)
    /\ pc = "done"
    /\ result = Real(1)

\* C10: Ast::evaluate returns the register left by the last statement, and
\* "no result" for a program without statements; the empty text gives no
\* statement and so "no result".
C10_LastStatementValue ==
    /\ pc = "done" =>
          result = IF statements = <<>> THEN NoValue
                   ELSE VisitExpression(statements[Len(statements)].expression,
                                        variables).last_value
    /\ (input = <<>> /\ PastParsing) => (statements = <<>> /\ pc # "parser_panic")
    /\ (input = <<>> /\ pc = "done") => result = NoValue
    /\ (input = <<"2", " ", "a">> /\ pc = "done") => result = NoValue
    /\ (input = <<"a", " ", "2">> /\ pc = "done") => result = Real(2)

\* "2 a": two statements, and the value 2.0 of the first has not survived
\* the unbound variable that follows it.
C10_Witness ==
    /\ input = <<"2", " ", "a">>
    /\ pc = "done"
    /\ Len(statements) = 2
    /\ result = NoValue

---------------------------------------------------------------------------
(* The power operator *)

\* Bases and exponents as written: literals, and parenthesized expressions
\* for the values no literal denotes (negative numbers, the infinities of
\* a division by zero, the NaN of 0/0).
PowBases ==
    {<<"2">>, <<"3">>, <<"0">>, <<"1">>, <<"0", ".", "5">>,
     <<"(", "0", "-", "1", ")">>, <<"(", "0", "-", "2", ")">>,
     <<"(", "1", "/", "0", ")">>, <<"(", "0", "-", "1", "/", "0", ")">>,
     <<"(", "0", "/", "0", ")">>}

PowExponents ==
    {<<"0">>, <<"1">>, <<"2">>, <<"3">>, <<"4">>, <<"3", ".", "9">>,
     <<"0", ".", "9">>, <<"(", "1", "/", "2", ")">>,
     <<"(", "0", "-", "1", ")">>, <<"(", "0", "-", "3", ".", "9", ")">>,
     <<"(", "1", "/", "0", ")">>, <<"(", "0", "-", "1", "/", "0", ")">>,
     <<"(", "0", "/", "0", ")">>}

PowTexts ==
    {Join(<<l, <<"^">>, r>>, sep) :
        l \in PowBases, r \in PowExponents, sep \in Separators}

InitPow == \E text \in PowTexts : Start(text, EmptyMap)

SpecPow == InitPow /\ [][Next]_vars

RECURSIVE IntPow(_, _)
\* The integer b multiplied by itself e times.
IntPow(b, e) == IF e = 0 THEN 1 ELSE b * IntPow(b, e - 1)

\* powf(l, e) for an exponent e that is a natural number [k |-> "nat", v],
\* u32::MAX [k |-> "max"] (an odd number beyond every modelled magnitude)
\* or +infinity [k |-> "inf"].
PowerOf(l, e) ==
    IF e.k = "nat" /\ e.v = 0 THEN Real(1)
    ELSE IF l.k = "nan" THEN NaN
    ELSE IF e.k = "nat"
         THEN IF l.k = "inf"
              THEN (IF l.s < 0 /\ e.v % 2 = 1 THEN NegInf ELSE PosInf)
              ELSE Num(IntPow(l.n, e.v), IntPow(l.d, e.v))
    ELSE LET big == l.k = "inf" \/ Abs(l.n) > l.d
             one == l.k = "num" /\ Abs(l.n) = l.d
         IN  IF e.k = "max"
             THEN (IF big THEN Inf(Sign(l)) ELSE IF one THEN l ELSE Real(0))
             ELSE (IF big THEN PosInf ELSE IF one THEN Real(1) ELSE Real(0))

\* trunc(r) of a finite r >= 0: the natural e with e <= r < e + 1.
TruncOf(r) ==
    CHOOSE e \in 0..r.n : e * r.d <= r.n /\ r.n < (e + 1) * r.d

\* The statement list is the single statement  L ^ R.
IsPowStatement ==
    /\ Len(statements) = 1
    /\ statements[1].expression.kind = "Binary"
    /\ statements[1].expression.operator = "Pow"

PowLeft == VisitExpression(statements[1].expression.left, variables).last_value

PowRight == VisitExpression(statements[1].expression.right, variables).last_value

\* C11 as amended: l ^ r is l raised to trunc(r) for a finite r >= 0, to
\* u32::MAX for r = +infinity, and to 0 for a negative r (-infinity
\* included) and for NaN.
C11_ExponentSaturates ==
    (pc = "done" /\ IsPowStatement) =>
        LET l == PowLeft
            r == PowRight
        IN  result = PowerOf(l,
                IF r.k = "nan" THEN [k |-> "nat", v |-> 0]
                ELSE IF r.k = "inf"
                     THEN (IF r.s > 0 THEN [k |-> "max"] ELSE [k |-> "nat", v |-> 0])
                ELSE IF r.n < 0 THEN [k |-> "nat", v |-> 0]
                ELSE [k |-> "nat", v |-> TruncOf(r)])

\* "2 ^ 3.9" has evaluated to 8: the exponent 3.9 was truncated to 3.
C11_Witness ==
    /\ pc = "done"
    /\ IsPowStatement
    /\ PowLeft = Real(2)
    /\ PowRight = Num(39, 10)
    /\ result = Real(8)

\* C11 as stated: l ^ r is l raised to trunc(r) for every r >= 0 (+infinity
\* is its own truncation), and the exponent is 0 for every negative r.
C11_TruncatedExponent ==
    LET l == PowLeft
        r == PowRight
    IN  /\ (pc = "done" /\ IsPowStatement /\ r.k = "num" /\ r.n >= 0) =>
              result = PowerOf(l, [k |-> "nat", v |-> TruncOf(r)])
        /\ (pc = "done" /\ IsPowStatement /\ r = PosInf) =>
              result = PowerOf(l, [k |-> "inf"])
        /\ (pc = "done" /\ IsPowStatement
              /\ (r = NegInf \/ (r.k = "num" /\ r.n < 0))) =>
              result = PowerOf(l, [k |-> "nat", v |-> 0])
        /\ (input = <<"2", "^", "3">> /\ pc = "done") => result = Real(8)
        /\ (input = <<"2", "^", "3", ".", "9">> /\ pc = "done") => result = Real(8)

---------------------------------------------------------------------------
(* parse_binary_expression and the cursor *)

\* The calls parse_binary_expression(precedence) that parsing ts can make,
\* as <<cursor, precedence>>: parse_expression's call with 0 at the start
\* of a statement or after an opening ( or {, and the call for a right
\* operand, made after an operator with that operator's precedence.
BinaryCalls(ts) ==
    {<<0, 0>>}
    \cup {<<cur, 0>> : cur \in {c \in 1..Len(ts) :
                                   ts[c].kind \in {"LeftParen", "Begin"}}}
    \cup {<<cur, Precedence(OperatorAt(ts, cur))>> :
             cur \in {c \in 1..Len(ts) : OperatorAt(ts, c) # ""}}

\* C12: a call parse_binary_expression(min_prec) that returns an expression
\* has consumed no operator it did not use: the last token it consumed is
\* not an operator, and the token its cursor is left on is not an operator
\* of precedence min_prec or higher; in  a op1 b op2 c  with op1 above op2,
\* the call for the right operand of op1 leaves the cursor on op2.
C12_OperatorOnlyPeeked ==
    LET ts == parser_tokens
    IN  /\ \A call \in BinaryCalls(ts) :
              LET r == ParseBinaryExpression(ts, call[1], call[2])
              IN  r.st = "some" =>
                    /\ OperatorAt(ts, r.cur) = ""
                    /\ LET next == ParseBinaryOperator(ts, r.cur)
                       IN  next # "" => Precedence(next) < call[2]
        /\ (/\ IsOperatorChain(ts)
            /\ Len(ts) = 6
            /\ Precedence(OperatorAt(ts, 2)) > Precedence(OperatorAt(ts, 4))) =>
              LET r == ParseBinaryExpression(ts, 2, Precedence(OperatorAt(ts, 2)))
              IN  r = Some(NumberExpr(ts[3].number), 3)

---------------------------------------------------------------------------
(* The statement-collecting loop *)

\* C13: in every turn of the statement-collecting loop the parser cursor
\* does not decrease; a turn that collects a statement moves the cursor on
\* by at least one token; a turn that starts with the cursor at or past the
\* end of the token list collects nothing and ends the loop; and the
\* statements collected are never more than the tokens the parser holds.
C13_StatementLoopTerminates ==
    [][pc = "parsing" =>
          /\ current' >= current
          /\ Len(statements') > Len(statements) => current' > current
          /\ current >= Len(parser_tokens) =>
                (pc' = "parsed" /\ statements' = statements)
          /\ pc' = "parsing" => Len(statements') = Len(statements) + 1
          /\ Len(statements') <= Len(parser_tokens')
          /\ Len(parser_tokens') <= Len(tokens')]_vars

\* Three statements were collected from four tokens (as for "2a 2") and
\* the loop has ended with the cursor at the end of the token list.
C13_Witness ==
    /\ pc = "parsed"
    /\ Len(statements) = 3
    /\ Len(parser_tokens) = 4
    /\ Len(tokens) = 5
    /\ current = 4

=============================================================================
